---- MODULE Spec2Model ----
(***************************************************************************)
(* A model of upb's one-pass, back-to-front protobuf encoder               *)
(* (src/upb/encode.c).                                                     *)
(*                                                                         *)
(* Two specifications share the definitions that model the code:           *)
(*   SpecBuf : the growable reverse buffer driven by arbitrary sequences   *)
(*             of reserve / put operations;                                *)
(*   Spec    : one upb_encode() call on a record drawn from bounded sets,  *)
(*             the root message's field loop taken one iteration at a time.*)
(***************************************************************************)
EXTENDS Integers, Sequences, FiniteSets, TLC

VARIABLES e, env, m, msg, i, pc, ret, prev, op, nops

vars == <<e, env, m, msg, i, pc, ret, prev, op, nops>>

(***************************************************************************)
(* 64-bit unsigned values.  TLC's integers are 32 bits wide, so a uint64_t *)
(* is kept as three limbs <<l0, l1, l2>> of 28, 28 and 8 bits:             *)
(*     value = l0 + l1 * 2^28 + l2 * 2^56.                                 *)
(* A 32-bit value has l1 < 16 and l2 = 0.                                  *)
(***************************************************************************)
B28 == 2^28

U64(l0, l1, l2) == <<l0, l1, l2>>

\* A natural n < 2^31 as a uint64_t.
FromNat(n) == U64(n % B28, n \div B28, 0)

\* Conversion of a (possibly negative) C integer n, -2^31 <= n < 2^31, to
\* uint64_t / size_t: the value modulo 2^64.
ToU64(n) ==
  IF n >= 0 THEN FromNat(n)
  ELSE LET k == -(n + 1)        \* 2^64 + n = (2^64 - 1) - k
       IN  U64((B28 - 1) - (k % B28), (B28 - 1) - (k \div B28), 255)

IsZero(v) == v[1] = 0 /\ v[2] = 0 /\ v[3] = 0

\* val & 0x7f
Low7(v) == v[1] % 128

\* val >> 7
Shr7(v) == U64((v[1] \div 128) + (v[2] % 128) * 2^21,
               (v[2] \div 128) + (v[3] % 128) * 2^21,
               v[3] \div 128)

\* val < 128
Below128(v) == v[2] = 0 /\ v[3] = 0 /\ v[1] < 128

\* The eight bytes of a uint64_t / the four bytes of a uint32_t in the
\* host's byte order (little-endian host: encode.c has no byte swap).
RECURSIVE BytesLE(_, _)
BytesLE(v, n) ==
  IF n = 0 THEN <<>>
  ELSE LET s == Shr7(v)
           \* v >> 8 = (v >> 7) >> 1
           h == U64((s[1] \div 2) + (s[2] % 2) * 2^27,
                    (s[2] \div 2) + (s[3] % 2) * 2^27,
                    s[3] \div 2)
       IN  <<v[1] % 256>> \o BytesLE(h, n - 1)

(***************************************************************************)
(* upb_encode_varint, lines 33-44.  Returns the bytes stored at buf[0..].  *)
(***************************************************************************)
RECURSIVE VarintLoop(_)
VarintLoop(val) ==
  IF IsZero(val) THEN <<>>
  ELSE LET byte0 == Low7(val)
           val2  == Shr7(val)
           byte  == IF ~IsZero(val2) THEN byte0 + 128 ELSE byte0
       IN  <<byte>> \o VarintLoop(val2)

upb_encode_varint(val) ==
  IF Below128(val) THEN <<val[1]>> ELSE VarintLoop(val)

(***************************************************************************)
(* upb_zzencode_32 / upb_zzencode_64, lines 46-47: (n << 1) ^ (n >> w-1).  *)
(* n >> (w-1) is an arithmetic shift: all ones for a negative n, else 0;   *)
(* x ^ 0 = x and x ^ (all ones) = (2^w - 1) - x.                           *)
(***************************************************************************)
upb_zzencode_32(n) ==
  LET shl  == U64((n[1] * 2) % B28, (n[2] * 2 + n[1] \div 2^27) % 16, 0)
      sign == n[2] \div 8
  IN  IF sign = 1 THEN U64((B28 - 1) - shl[1], 15 - shl[2], 0) ELSE shl

upb_zzencode_64(n) ==
  LET shl  == U64((n[1] * 2) % B28,
                  (n[2] * 2 + n[1] \div 2^27) % B28,
                  (n[3] * 2 + n[2] \div 2^27) % 256)
      sign == n[3] \div 128
  IN  IF sign = 1
      THEN U64((B28 - 1) - shl[1], (B28 - 1) - shl[2], 255 - shl[3])
      ELSE shl

(***************************************************************************)
(* Encoder state, upb_encstate (lines 49-52).  buf, ptr and limit are      *)
(* addresses; mem is the content of the allocation [buf, limit), mem[j+1]  *)
(* being the byte at address buf + j.  The remaining fields are history:   *)
(*   written : every byte stored by a put operation, newest first (what    *)
(*             the output would be if no byte were ever lost);             *)
(*   nalloc  : allocator requests made so far;                             *)
(*   denied  : the allocator has denied a request;                         *)
(*   late    : reserve calls and allocator requests made after a denial;   *)
(*   prefixes: one entry per length prefix written for an embedded         *)
(*             message: the size written, the bytes the embedded message   *)
(*             added to the output, whether its record was null, and       *)
(*             whether the buffer grew while it was encoded.               *)
(***************************************************************************)
NULL == 0

UPB_PB_VARINT_MAX_LEN == 10

Used(s) == s.limit - s.ptr

Capacity(s) == s.limit - s.buf

\* The finished / live output range [ptr, limit).
Output(s) == SubSeq(s.mem, (s.ptr - s.buf) + 1, Capacity(s))

Fill(n, b) == [j \in 1..n |-> b]

\* memcpy / memmove of data to offset off (0-based) of an allocation.
WriteAt(mem, off, data) ==
  [j \in 1..Len(mem) |->
     IF j > off /\ j <= off + Len(data) THEN data[j - off] ELSE mem[j]]

(***************************************************************************)
(* The allocator, upb_env_realloc(env, ptr, oldsize, size): an external    *)
(* collaborator.  It denies the request or returns a region of `size`      *)
(* bytes whose first `oldsize` bytes are those of the old region and whose *)
(* other bytes are uninitialized.  env fixes what it does:                 *)
(*   env.budget  : the number of requests it grants before it denies;      *)
(*   env.inplace : it extends a region where it is (same address) rather   *)
(*                 than moving it;                                         *)
(*   env.fill    : the value read from each uninitialized byte.            *)
(***************************************************************************)
HeapBase == 2^12

HeapGap == 2^4

upb_env_realloc(s, old_size, new_size, en) ==
  IF s.nalloc >= en.budget THEN [ok |-> FALSE, addr |-> NULL, mem |-> <<>>]
  ELSE [ok   |-> TRUE,
        addr |-> IF s.buf = NULL THEN HeapBase
                 ELSE IF en.inplace THEN s.buf
                 ELSE s.limit + HeapGap,
        mem  |-> SubSeq(s.mem, 1, old_size) \o Fill(new_size - old_size, en.fill)]

(***************************************************************************)
(* upb_roundup_pow2, lines 54-60.                                          *)
(***************************************************************************)
RECURSIVE RoundupLoop(_, _)
RoundupLoop(r, bytes) == IF r < bytes THEN RoundupLoop(r * 2, bytes) ELSE r

\* Mutation of upb_roundup_pow2: the loop starts from 64.
upb_roundup_pow2_from64(bytes) == RoundupLoop(64, bytes)

upb_roundup_pow2(bytes) == RoundupLoop(128, bytes)

(***************************************************************************)
(* Results of the bool-returning functions: [ok, e], e the encoder state   *)
(* they leave.  Then(r, Op) is `r && Op`: Op runs on r's state only when r *)
(* succeeded (CHK, line 8, and the && chains).                             *)
(***************************************************************************)
Ok(s) == [ok |-> TRUE, e |-> s]

Failed(s) == [ok |-> FALSE, e |-> s]

Then(r, Op(_)) == IF r.ok THEN Op(r.e) ELSE Failed(r.e)

\* memmove(dst, src, n) within one allocation (0-based offsets).
MemMove(mem, dst, src, n) == WriteAt(mem, dst, SubSeq(mem, src + 1, src + n))

(***************************************************************************)
(* upb_encode_growbuffer, lines 62-75.  The memmove of line 69 has         *)
(* destination e->limit - old_size and source e->buf, both addresses of    *)
(* the OLD region (and equal to each other); it touches the new region     *)
(* only when the allocator extended the region in place.                   *)
(***************************************************************************)
\* The request is counted (history).
Requested(s) ==
  [s EXCEPT !.nalloc = @ + 1, !.late = IF s.denied THEN @ + 1 ELSE @]

\* Lines 66-74, r being what upb_env_realloc returned.
Regrown(s, old_size, new_size, r) ==
  IF ~r.ok
  THEN Failed([Requested(s) EXCEPT !.denied = TRUE])
  ELSE Ok([Requested(s) EXCEPT
             !.mem   = IF r.addr = s.buf
                       THEN MemMove(r.mem, (s.limit - old_size) - r.addr,
                                    s.buf - r.addr, old_size)
                       ELSE r.mem,
             !.ptr   = r.addr + new_size - (s.limit - s.ptr),
             !.limit = r.addr + new_size,
             !.buf   = r.addr])

GrowTo(s, old_size, new_size, en) ==
  Regrown(s, old_size, new_size, upb_env_realloc(s, old_size, new_size, en))

upb_encode_growbuffer(s, bytes, en) ==
  GrowTo(s, s.limit - s.buf, upb_roundup_pow2(bytes + (s.limit - s.ptr)), en)

(***************************************************************************)
(* upb_encode_reserve, lines 79-85.                                        *)
(***************************************************************************)
\* Mutation of upb_encode_reserve: the CHK of line 81 is dropped, so that
\* the cursor moves whatever upb_encode_growbuffer returned.
ReserveResumed(r, bytes) ==
  Ok([r.e EXCEPT !.ptr = @ - bytes, !.late = IF r.e.denied THEN @ + 1 ELSE @])

upb_encode_reserve_unchecked(s, bytes, en) ==
  ReserveResumed(IF s.ptr - s.buf >= bytes THEN Ok(s)
                 ELSE upb_encode_growbuffer(s, bytes, en), bytes)

upb_encode_reserve(s, bytes, en) ==
  Then(IF s.ptr - s.buf >= bytes THEN Ok(s)
       ELSE upb_encode_growbuffer(s, bytes, en),
       LAMBDA x : Ok([x EXCEPT !.ptr = @ - bytes,
                               !.late = IF x.denied THEN @ + 1 ELSE @]))

(***************************************************************************)
(* upb_put_bytes, lines 88-92.                                             *)
(***************************************************************************)
upb_put_bytes(s, data, en) ==
  Then(upb_encode_reserve(s, Len(data), en),
       LAMBDA x : Ok([x EXCEPT !.mem = WriteAt(@, x.ptr - x.buf, data),
                               !.written = data \o @]))

(***************************************************************************)
(* upb_put_fixed64 / upb_put_fixed32, lines 94-102; upb_put_double /       *)
(* upb_put_float, lines 115-127 (the value is already its raw bits).       *)
(***************************************************************************)
upb_put_fixed64(s, val, en) == upb_put_bytes(s, BytesLE(val, 8), en)

upb_put_fixed32(s, val, en) == upb_put_bytes(s, BytesLE(val, 4), en)

upb_put_double(s, d, en) == upb_put_fixed64(s, d, en)

upb_put_float(s, d, en) == upb_put_fixed32(s, d, en)

(***************************************************************************)
(* upb_put_varint, lines 104-113: reserve 10 bytes, encode at e->ptr, move *)
(* the len bytes up against the old cursor, give the rest back.            *)
(***************************************************************************)
\* Lines 108-111 on the state x left by the reserve; bytes is what
\* upb_encode_varint stores at e->ptr.
VarintStored(x, bytes) ==
  [x EXCEPT
     !.mem = MemMove(WriteAt(@, x.ptr - x.buf, bytes),
                     (x.ptr + UPB_PB_VARINT_MAX_LEN - Len(bytes)) - x.buf,
                     x.ptr - x.buf, Len(bytes)),
     !.ptr = x.ptr + UPB_PB_VARINT_MAX_LEN - Len(bytes),
     !.written = bytes \o @]

upb_put_varint(s, val, en) ==
  Then(upb_encode_reserve(s, UPB_PB_VARINT_MAX_LEN, en),
       LAMBDA x : Ok(VarintStored(x, upb_encode_varint(val))))

(***************************************************************************)
(* upb_put_tag, lines 142-144: (field_number << 3) | wire_type is computed *)
(* in int and converted to uint64_t.  For field_number >= 2^28 the shift   *)
(* overflows int (undefined): a build either wraps to a negative int,      *)
(* which the conversion sign-extends ("wrap"), or computes the shift in a  *)
(* 64-bit register ("wide").  en.shl is the build's outcome.               *)
(***************************************************************************)
TagValue(field_number, wire_type, shl) ==
  LET l0 == (field_number % 2^25) * 8 + wire_type
      l1 == field_number \div 2^25
  IN  IF l1 >= 8 /\ shl = "wrap"
      THEN U64(l0, l1 + (B28 - 16), 255)
      ELSE U64(l0, l1, 0)

upb_put_tag(s, field_number, wire_type, en) ==
  upb_put_varint(s, TagValue(field_number, wire_type, en.shl), en)

(***************************************************************************)
(* Schema descriptors and records.                                         *)
(*   layout (upb_msglayout_msginit_v1):                                    *)
(*     [is_proto2, fields : Seq(field), submsgs : Seq(layout)]             *)
(*   field (upb_msglayout_fieldinit_v1):                                   *)
(*     [number, type, label, oneof_index, hasbit, submsg_index]            *)
(*   record: [null |-> TRUE] for a null pointer, else                      *)
(*     [null |-> FALSE, hasbits : Seq(byte), cases : Seq(uint32),          *)
(*      val : Seq(storage)], val[k] being the storage at the offset of the *)
(*     k-th field: a uint64 for a numeric field (raw bits), a byte         *)
(*     sequence for a string view, a record for a sub-message pointer, and *)
(*     for a repeated field an array [null |-> TRUE] or                    *)
(*     [null |-> FALSE, elems : Seq(storage)].                             *)
(***************************************************************************)
UPB_WIRE_TYPE_VARINT == 0

UPB_WIRE_TYPE_64BIT == 1

UPB_WIRE_TYPE_DELIMITED == 2

UPB_WIRE_TYPE_START_GROUP == 3

UPB_WIRE_TYPE_END_GROUP == 4

UPB_WIRE_TYPE_32BIT == 5

UPB_NOT_IN_ONEOF == 2^16 - 1

UPB_NO_HASBIT == 2^16 - 1

NullRef == [null |-> TRUE]

(***************************************************************************)
(* upb_readcase, lines 129-134; upb_readhasbit, lines 136-140.             *)
(***************************************************************************)
upb_readcase(rec, layout, oneof_index) == rec.cases[oneof_index + 1]

upb_readhasbit(rec, f) ==
  (rec.hasbits[(f.hasbit \div 8) + 1] \div 2^(f.hasbit % 8)) % 2 = 1

(***************************************************************************)
(* upb_put_fixedarray, lines 146-150.  arr->data is the concatenation of   *)
(* the elements' bytes.                                                    *)
(***************************************************************************)
RECURSIVE ArrayData(_, _)
ArrayData(elems, size) ==
  IF elems = <<>> THEN <<>>
  ELSE BytesLE(Head(elems), size) \o ArrayData(SubSeq(elems, 2, Len(elems)), size)

upb_put_fixedarray(s, arr, size, en) ==
  Then(upb_put_bytes(s, ArrayData(arr.elems, size), en),
       LAMBDA x : upb_put_varint(x, ToU64(Len(arr.elems) * size), en))

(***************************************************************************)
(* upb_encode_hasscalarfield, lines 331-342.                               *)
(***************************************************************************)
upb_encode_hasscalarfield(rec, layout, f) ==
  IF f.oneof_index # UPB_NOT_IN_ONEOF
  THEN upb_readcase(rec, layout, f.oneof_index) = f.number
  ELSE IF layout.is_proto2 THEN upb_readhasbit(rec, f)
  ELSE TRUE

\* val == 0 for a double / a float held as raw bits: +0.0 and -0.0.
DoubleIsZero(v) == IsZero(v) \/ v = U64(0, 0, 128)

FloatIsZero(v) == IsZero(v) \/ v = U64(0, 8, 0)

\* One entry of the length-prefix history.
Logged(s, isnull, size, wrote, grew) ==
  [s EXCEPT !.prefixes = Append(@, [null |-> isnull, size |-> size,
                                    wrote |-> wrote, grew |-> grew])]

\* upb_encode_message(e, sub, subm, &size) && upb_put_varint(e, size), lines
\* 240-241 and 322-323.  s is the state before the call, and r the result
\* [ok, e, size] of upb_encode_message, size being what the caller's size
\* variable holds after the call.
PutLength(s, rec, r, en) ==
  IF ~r.ok THEN Failed(r.e)
  ELSE upb_put_varint(Logged(r.e, rec.null, r.size, Used(r.e) - Used(s),
                             r.e.nalloc # s.nalloc),
                      ToU64(r.size), en)

RECURSIVE upb_encode_message(_, _, _, _, _)
RECURSIVE MessageLoop(_, _, _, _, _)
RECURSIVE EncodeField(_, _, _, _, _)
RECURSIVE upb_encode_scalarfield(_, _, _, _, _, _)
RECURSIVE upb_encode_array(_, _, _, _, _)
RECURSIVE VarintArrayLoop(_, _, _, _, _)
RECURSIVE StringArrayLoop(_, _, _, _, _)
RECURSIVE GroupArrayLoop(_, _, _, _, _, _)
RECURSIVE MessageArrayLoop(_, _, _, _, _, _)

(***************************************************************************)
(* upb_encode_array, lines 156-253.                                        *)
(***************************************************************************)
\* The `encode` argument of VARINT_CASE, lines 195-207, with the conversion
\* of the element's C type to uint64_t.
ElemVarint(type, x) ==
  CASE type = "SINT32" -> upb_zzencode_32(x)
    [] type = "SINT64" -> upb_zzencode_64(x)
    [] OTHER -> x

\* The do-while of VARINT_CASE, lines 171-174: elements k, k-1, .., 1.
VarintArrayLoop(s, elems, k, type, en) ==
  Then(upb_put_varint(s, ElemVarint(type, elems[k]), en),
       LAMBDA x : IF k = 1 THEN Ok(x)
                  ELSE VarintArrayLoop(x, elems, k - 1, type, en))

\* Lines 167-176: the run, then its length e->limit - e->ptr - pre_len.
VarintCase(s, arr, type, en) ==
  Then(VarintArrayLoop(s, arr.elems, Len(arr.elems), type, en),
       LAMBDA x : upb_put_varint(x, ToU64(x.limit - x.ptr - (s.limit - s.ptr)), en))

\* Lines 210-218.
StringArrayLoop(s, elems, k, f, en) ==
  Then(Then(Then(upb_put_bytes(s, elems[k], en),
                 LAMBDA x : upb_put_varint(x, ToU64(Len(elems[k])), en)),
            LAMBDA x : upb_put_tag(x, f.number, UPB_WIRE_TYPE_DELIMITED, en)),
       LAMBDA x : IF k = 1 THEN Ok(x)
                  ELSE StringArrayLoop(x, elems, k - 1, f, en))

\* Lines 221-231.  size is declared in the loop body and never read.
GroupArrayLoop(s, elems, k, subm, f, en) ==
  Then(Then(Then(upb_put_tag(s, f.number, UPB_WIRE_TYPE_END_GROUP, en),
                 LAMBDA x : upb_encode_message(x, elems[k], subm, en.uninit, en)),
            LAMBDA x : upb_put_tag(x, f.number, UPB_WIRE_TYPE_START_GROUP, en)),
       LAMBDA x : IF k = 1 THEN Ok(x)
                  ELSE GroupArrayLoop(x, elems, k - 1, subm, f, en))

\* Lines 234-244.  size is declared in the loop body without an initial
\* value: it holds en.uninit until upb_encode_message assigns it.
MessageArrayLoop(s, elems, k, subm, f, en) ==
  Then(Then(PutLength(s, elems[k],
                      upb_encode_message(s, elems[k], subm, en.uninit, en), en),
            LAMBDA x : upb_put_tag(x, f.number, UPB_WIRE_TYPE_DELIMITED, en)),
       LAMBDA x : IF k = 1 THEN Ok(x)
                  ELSE MessageArrayLoop(x, elems, k - 1, subm, f, en))

\* The switch of lines 180-246 for the packed types.
PackedCase(s, arr, t, en) ==
  CASE t = "DOUBLE" -> upb_put_fixedarray(s, arr, 8, en)
    [] t = "FLOAT" -> upb_put_fixedarray(s, arr, 4, en)
    [] t \in {"SFIXED64", "FIXED64"} -> upb_put_fixedarray(s, arr, 8, en)
    [] t \in {"FIXED32", "SFIXED32"} -> upb_put_fixedarray(s, arr, 4, en)
    [] OTHER -> VarintCase(s, arr, t, en)

upb_encode_array(s, arr, layout, f, en) ==
  IF arr.null \/ Len(arr.elems) = 0 THEN Ok(s)
  ELSE CASE f.type \in {"STRING", "BYTES"} ->
              StringArrayLoop(s, arr.elems, Len(arr.elems), f, en)
         [] f.type = "GROUP" ->
              GroupArrayLoop(s, arr.elems, Len(arr.elems),
                             layout.submsgs[f.submsg_index + 1], f, en)
         [] f.type = "MESSAGE" ->
              MessageArrayLoop(s, arr.elems, Len(arr.elems),
                               layout.submsgs[f.submsg_index + 1], f, en)
         [] OTHER ->
              \* lines 249-252
              Then(PackedCase(s, arr, f.type, en),
                   LAMBDA x : upb_put_tag(x, f.number, UPB_WIRE_TYPE_DELIMITED, en))

(***************************************************************************)
(* upb_encode_scalarfield, lines 255-329.                                  *)
(***************************************************************************)
\* upb_put_ ## type of the CASE macro, line 266.
PutTyped(s, put, encodeval, en) ==
  CASE put = "varint" -> upb_put_varint(s, encodeval, en)
    [] put = "fixed64" -> upb_put_fixed64(s, encodeval, en)
    [] put = "fixed32" -> upb_put_fixed32(s, encodeval, en)
    [] put = "double" -> upb_put_double(s, encodeval, en)
    [] put = "float" -> upb_put_float(s, encodeval, en)

\* The CASE macro, lines 261-268.
ScalarCase(s, put, wire_type, iszero, encodeval, skip_zero_value, f, en) ==
  IF skip_zero_value /\ iszero THEN Ok(s)
  ELSE Then(PutTyped(s, put, encodeval, en),
            LAMBDA x : upb_put_tag(x, f.number, wire_type, en))

\* Mutations of line 259: zero values are elided in proto2 too; zero values
\* are never elided.
SkipZeroValue_anysyntax(f, is_proto3) == f.oneof_index = UPB_NOT_IN_ONEOF

SkipZeroValue_never(f, is_proto3) == FALSE

\* Line 259.
SkipZeroValue(f, is_proto3) == is_proto3 /\ f.oneof_index = UPB_NOT_IN_ONEOF

\* Lines 271-293: <<put, wire type, val == 0, encodeval>> of a numeric type.
NumericCase(t, val) ==
  CASE t = "DOUBLE" -> <<"double", UPB_WIRE_TYPE_64BIT, DoubleIsZero(val), val>>
    [] t = "FLOAT" -> <<"float", UPB_WIRE_TYPE_32BIT, FloatIsZero(val), val>>
    [] t \in {"INT64", "UINT64", "UINT32", "INT32", "ENUM", "BOOL"} ->
         <<"varint", UPB_WIRE_TYPE_VARINT, IsZero(val), val>>
    [] t \in {"SFIXED64", "FIXED64"} ->
         <<"fixed64", UPB_WIRE_TYPE_64BIT, IsZero(val), val>>
    [] t \in {"FIXED32", "SFIXED32"} ->
         <<"fixed32", UPB_WIRE_TYPE_32BIT, IsZero(val), val>>
    [] t = "SINT32" ->
         <<"varint", UPB_WIRE_TYPE_VARINT, IsZero(val), upb_zzencode_32(val)>>
    [] t = "SINT64" ->
         <<"varint", UPB_WIRE_TYPE_VARINT, IsZero(val), upb_zzencode_64(val)>>

NumericField(s, c, skip_zero_value, f, en) ==
  ScalarCase(s, c[1], c[2], c[3], c[4], skip_zero_value, f, en)

upb_encode_scalarfield(s, val, layout, f, is_proto3, en) ==
  CASE f.type \in {"STRING", "BYTES"} ->
         \* lines 294-303
         IF SkipZeroValue(f, is_proto3) /\ Len(val) = 0 THEN Ok(s)
         ELSE Then(Then(upb_put_bytes(s, val, en),
                        LAMBDA x : upb_put_varint(x, ToU64(Len(val)), en)),
                   LAMBDA x : upb_put_tag(x, f.number, UPB_WIRE_TYPE_DELIMITED, en))
    [] f.type = "GROUP" ->
         \* lines 304-314
         IF SkipZeroValue(f, is_proto3) /\ val.null THEN Ok(s)
         ELSE Then(Then(upb_put_tag(s, f.number, UPB_WIRE_TYPE_END_GROUP, en),
                        LAMBDA x : upb_encode_message(
                                     x, val, layout.submsgs[f.submsg_index + 1],
                                     en.uninit, en)),
                   LAMBDA x : upb_put_tag(x, f.number, UPB_WIRE_TYPE_START_GROUP, en))
    [] f.type = "MESSAGE" ->
         \* lines 315-325
         IF SkipZeroValue(f, is_proto3) /\ val.null THEN Ok(s)
         ELSE Then(PutLength(s, val,
                             upb_encode_message(
                               s, val, layout.submsgs[f.submsg_index + 1],
                               en.uninit, en), en),
                   LAMBDA x : upb_put_tag(x, f.number, UPB_WIRE_TYPE_DELIMITED, en))
    [] OTHER ->
         NumericField(s, NumericCase(f.type, val), SkipZeroValue(f, is_proto3), f, en)

(***************************************************************************)
(* upb_encode_message, lines 344-368.  size0 is the value the caller's     *)
(* size variable holds before the call; the result's size is what it holds *)
(* after it.  k = i + 1 for the loop counter i of line 354.                *)
(***************************************************************************)
\* The loop body, lines 355-363.
EncodeField(s, rec, layout, k, en) ==
  IF layout.fields[k].label = "REPEATED"
  THEN upb_encode_array(s, rec.val[k], layout, layout.fields[k], en)
  ELSE IF upb_encode_hasscalarfield(rec, layout, layout.fields[k])
       THEN upb_encode_scalarfield(s, rec.val[k], layout, layout.fields[k],
                                   ~layout.is_proto2, en)
       ELSE Ok(s)

\* The loop, line 354: i = k - 1 down to 0.
MessageLoop(s, rec, layout, k, en) ==
  IF k = 0 THEN Ok(s)
  ELSE Then(EncodeField(s, rec, layout, k, en),
            LAMBDA x : MessageLoop(x, rec, layout, k - 1, en))

\* Line 366: *size = buf_end - e->ptr, a difference of two addresses.
MessageSize(buf_end, s) == buf_end - s.ptr

\* Lines 366-367 after the loop left r; s is the state at entry, whose
\* cursor is buf_end (line 348).
MessageReturn(s, r, size0) ==
  IF ~r.ok THEN [ok |-> FALSE, e |-> r.e, size |-> size0]
  ELSE [ok |-> TRUE, e |-> r.e, size |-> MessageSize(s.ptr, r.e)]

upb_encode_message(s, rec, layout, size0, en) ==
  IF rec.null
  THEN [ok |-> TRUE, e |-> s, size |-> size0]
  ELSE MessageReturn(s, MessageLoop(s, rec, layout, Len(layout.fields), en), size0)

(***************************************************************************)
(* The empty encoder state set up by upb_encode, lines 372-376.            *)
(***************************************************************************)
EmptyState ==
  [buf |-> NULL, ptr |-> NULL, limit |-> NULL, mem |-> <<>>,
   written |-> <<>>, nalloc |-> 0, denied |-> FALSE, late |-> 0,
   prefixes |-> <<>>]

(***************************************************************************)
(* Bounds and input sets of the model.                                     *)
(***************************************************************************)
\* Operations per run of the buffer specification.
MaxOps == 3

\* Largest buffer capacity the buffer specification grows to.
MaxCap == 512

\* Values an uninitialized byte may hold.
Garbage == {0, 170}

\* What a build makes of the overflowing shift in upb_put_tag.
ShlOutcomes == {"wrap", "wide"}

\* Values an uninitialized size_t may hold.
UninitSizes == {0, 7}

\* A block of n distinct-looking bytes.
Block(n, salt) == [j \in 1..n |-> (j * 3 + salt) % 256]

ReserveSizes == {0, 130}

DataPool == {<<1, 2, 3>>, Block(130, 2)}

VarintPool == {FromNat(0), FromNat(300), ToU64(-1)}

FixedPool == {ToU64(-2)}

\* <<field number, wire type>> pairs: every wire type, field numbers on both
\* sides of 2^28.
TagPool == {<<1, 0>>, <<16, 1>>, <<2^28 - 1, 2>>, <<2^28, 3>>, <<2, 4>>,
            <<2^29 - 1, 5>>}

\* The allocator's possible conduct at a buffer operation that reserves n
\* bytes (it is consulted only when the buffer has to grow).
BufEnvs(s, n) ==
  IF s.ptr - s.buf >= n
  THEN {[budget |-> s.nalloc, inplace |-> FALSE, fill |-> 0, uninit |-> 0]}
  ELSE {[budget |-> b, inplace |-> ip, fill |-> f, uninit |-> 0] :
          b \in {s.nalloc, s.nalloc + 1}, ip \in BOOLEAN, f \in Garbage}

\* The build's possible conduct at upb_put_tag (it matters only from 2^28).
TagOutcomes(fn) == IF fn >= 2^28 THEN ShlOutcomes ELSE {"wrap"}

(***************************************************************************)
(* Specification SpecBuf: any sequence of buffer operations from the empty *)
(* state.  prev is the encoder state before the last operation, op the     *)
(* operation.  A failed operation ends the run, as it ends an encode call. *)
(***************************************************************************)
NoOp == [name |-> "none", req |-> 0, n |-> 0, wt |-> 0, ok |-> TRUE]

InitBuf ==
  /\ e = EmptyState
  /\ prev = EmptyState
  /\ op = NoOp
  /\ nops = 0
  /\ env = [budget |-> 0, inplace |-> FALSE, fill |-> 0, uninit |-> 0, shl |-> "wrap"]
  /\ m = <<>>
  /\ msg = <<>>
  /\ i = 0
  /\ pc = "buf"
  /\ ret = <<>>

BufGuard(n) ==
  /\ pc = "buf"
  /\ nops < MaxOps
  /\ ~e.denied
  /\ upb_roundup_pow2(n + Used(e)) <= MaxCap

\* req: the bytes the operation asks upb_encode_reserve for.
BufStep(r, name, req, n, wt) ==
  /\ e' = r.e
  /\ prev' = e
  /\ op' = [name |-> name, req |-> req, n |-> n, wt |-> wt, ok |-> r.ok]
  /\ nops' = nops + 1
  /\ UNCHANGED <<env, m, msg, i, pc, ret>>

WithShl(en, sh) ==
  [budget |-> en.budget, inplace |-> en.inplace, fill |-> en.fill,
   uninit |-> en.uninit, shl |-> sh]

Reserve ==
  \E n \in ReserveSizes :
    \E en \in BufEnvs(e, n) :
      /\ BufGuard(n)
      /\ BufStep(upb_encode_reserve(e, n, en), "reserve", n, n, 0)

PutBytes ==
  \E data \in DataPool :
    \E en \in BufEnvs(e, Len(data)) :
      /\ BufGuard(Len(data))
      /\ BufStep(upb_put_bytes(e, data, en), "bytes", Len(data), Len(data), 0)

PutFixed32 ==
  \E v \in FixedPool :
    \E en \in BufEnvs(e, 4) :
      /\ BufGuard(4)
      /\ BufStep(upb_put_fixed32(e, U64(v[1], v[2] % 16, 0), en), "fixed32", 4, 4, 0)

PutFixed64 ==
  \E v \in FixedPool :
    \E en \in BufEnvs(e, 8) :
      /\ BufGuard(8)
      /\ BufStep(upb_put_fixed64(e, v, en), "fixed64", 8, 8, 0)

PutVarint ==
  \E v \in VarintPool :
    \E en \in BufEnvs(e, UPB_PB_VARINT_MAX_LEN) :
      /\ BufGuard(UPB_PB_VARINT_MAX_LEN)
      /\ BufStep(upb_put_varint(e, v, en), "varint", UPB_PB_VARINT_MAX_LEN, 0, 0)

PutTag ==
  \E t \in TagPool :
    \E en \in BufEnvs(e, UPB_PB_VARINT_MAX_LEN), sh \in TagOutcomes(t[1]) :
      /\ BufGuard(UPB_PB_VARINT_MAX_LEN)
      /\ BufStep(upb_put_tag(e, t[1], t[2], WithShl(en, sh)), "tag",
                 UPB_PB_VARINT_MAX_LEN, t[1], t[2])

NextBuf == Reserve \/ PutBytes \/ PutFixed32 \/ PutFixed64 \/ PutVarint \/ PutTag

SpecBuf == InitBuf /\ [][NextBuf]_vars

(***************************************************************************)
(* Inputs of the encode specification: layouts and records drawn from      *)
(* bounded families.                                                       *)
(***************************************************************************)
\* Longest repeated field.
MaxArr == 3

\* Most fields of a multi-field proto3 message.
MaxFields == 3

\* Most requests the allocator grants before it denies one.
MaxGrants == 3

VarintTypes == {"INT64", "UINT64", "INT32", "UINT32", "ENUM", "BOOL", "SINT32", "SINT64"}

FixedTypes == {"DOUBLE", "FLOAT", "FIXED64", "SFIXED64", "FIXED32", "SFIXED32"}

StringTypes == {"STRING", "BYTES"}

MessageTypes == {"MESSAGE", "GROUP"}

AllTypes == VarintTypes \cup FixedTypes \cup StringTypes \cup MessageTypes

Types64 == {"INT64", "UINT64", "SINT64", "DOUBLE", "FIXED64", "SFIXED64"}

Fld(number, type, label, oneof_index, hasbit, submsg_index) ==
  [number |-> number, type |-> type, label |-> label,
   oneof_index |-> oneof_index, hasbit |-> hasbit, submsg_index |-> submsg_index]

\* message Inner { repeated string names = 1; }
InnerLayout ==
  [is_proto2 |-> FALSE,
   fields |-> <<Fld(1, "STRING", "REPEATED", UPB_NOT_IN_ONEOF, UPB_NO_HASBIT, 0)>>,
   submsgs |-> <<>>]

\* message Mid { Inner inner = 1; }
MidLayout ==
  [is_proto2 |-> FALSE,
   fields |-> <<Fld(1, "MESSAGE", "OPTIONAL", UPB_NOT_IN_ONEOF, UPB_NO_HASBIT, 0)>>,
   submsgs |-> <<InnerLayout>>]

Rec(hasbits, cases, val) ==
  [null |-> FALSE, hasbits |-> hasbits, cases |-> cases, val |-> val]

Arr(elems) == [null |-> FALSE, elems |-> elems]

\* A Mid record whose inner names are <<"a" + k>>, <<"b" + k, "c" + k>>.
MidRec(k) ==
  Rec(<<>>, <<>>,
      <<Rec(<<>>, <<>>, <<Arr(<<<<97 + k>>, <<98 + k, 99 + k>>>>)>>)>>)

\* The zero value of a type, and a k-th non-zero value.
Zero(t) ==
  CASE t \in StringTypes -> <<>>
    [] t \in MessageTypes -> NullRef
    [] OTHER -> U64(0, 0, 0)

NonZero(t, k) ==
  CASE t \in StringTypes -> [j \in 1..(1 + (k % 3)) |-> 103 + k + j]
    [] t \in MessageTypes -> MidRec(k)
    [] t = "BOOL" -> FromNat(1)
    [] k % 4 = 3 -> FromNat(300)
    [] t \in Types64 -> ToU64(-1)
    [] OTHER -> U64(B28 - 1, 15, 0)

\* Family A: one singular field of every type, zero or not, under every
\* presence regime.  Its hasbit is bit 9; every other hasbit is set.
Presences == {"proto3", "proto2 set", "proto2 clear", "oneof active", "oneof other"}

SingleField(t, pres, v) ==
  [m |-> [is_proto2 |-> pres \in {"proto2 set", "proto2 clear"},
          fields |-> <<Fld(5, t, "OPTIONAL",
                           IF pres \in {"oneof active", "oneof other"}
                           THEN 0 ELSE UPB_NOT_IN_ONEOF,
                           IF pres \in {"proto2 set", "proto2 clear"}
                           THEN 9 ELSE UPB_NO_HASBIT,
                           0)>>,
          submsgs |-> <<MidLayout>>],
   msg |-> Rec(<<255, IF pres = "proto2 clear" THEN 253 ELSE 255>>,
               <<IF pres = "oneof active" THEN 5 ELSE 0>>,
               <<v>>)]

FamilySingle ==
  UNION {{SingleField(t, pres, v) : pres \in Presences, v \in {Zero(t), NonZero(t, 1)}} :
           t \in AllTypes}

\* Family R: one repeated field of every type: a null array and arrays of
\* 0..MaxArr elements, every second element zero.
ArrOf(t, n) == Arr([k \in 1..n |-> IF k % 2 = 0 THEN Zero(t) ELSE NonZero(t, k)])

RepeatedField(t, arr) ==
  [m |-> [is_proto2 |-> FALSE,
          fields |-> <<Fld(5, t, "REPEATED", UPB_NOT_IN_ONEOF, UPB_NO_HASBIT, 0)>>,
          submsgs |-> <<MidLayout>>],
   msg |-> Rec(<<>>, <<>>, <<arr>>)]

FamilyRepeated ==
  UNION {{RepeatedField(t, arr) : arr \in {NullRef} \cup {ArrOf(t, n) : n \in 0..MaxArr}} :
           t \in AllTypes}

\* Family M: proto3 messages of 1..MaxFields fields, each of one of four
\* kinds; the k-th declared field has number 15 - k.
Kinds == {"int", "bigstring", "strings", "message"}

KindField(kind, k) ==
  CASE kind = "int" ->
         Fld(15 - k, "INT32", "OPTIONAL", UPB_NOT_IN_ONEOF, UPB_NO_HASBIT, 0)
    [] kind = "bigstring" ->
         Fld(15 - k, "STRING", "OPTIONAL", UPB_NOT_IN_ONEOF, UPB_NO_HASBIT, 0)
    [] kind = "strings" ->
         Fld(15 - k, "BYTES", "REPEATED", UPB_NOT_IN_ONEOF, UPB_NO_HASBIT, 0)
    [] kind = "message" ->
         Fld(15 - k, "MESSAGE", "OPTIONAL", UPB_NOT_IN_ONEOF, UPB_NO_HASBIT, 0)

KindValue(kind, k) ==
  CASE kind = "int" -> FromNat(k)
    [] kind = "bigstring" -> Block(100, k)
    [] kind = "strings" -> Arr(<<<<65 + k>>, <<66 + k, 67 + k>>>>)
    [] kind = "message" -> MidRec(k)

MultiField(kinds) ==
  [m |-> [is_proto2 |-> FALSE,
          fields |-> [k \in 1..Len(kinds) |-> KindField(kinds[k], k)],
          submsgs |-> <<MidLayout>>],
   msg |-> Rec(<<>>, <<>>, [k \in 1..Len(kinds) |-> KindValue(kinds[k], k)])]

FamilyMulti ==
  UNION {{MultiField(kinds) : kinds \in [1..n -> Kinds]} : n \in 1..MaxFields}

\* Family G: a packed repeated field of every varint type declared before a
\* 116-byte string, so that the buffer grows while the run is written.
FamilyGrowingRun ==
  {[m |-> [is_proto2 |-> FALSE,
           fields |-> <<Fld(1, t, "REPEATED", UPB_NOT_IN_ONEOF, UPB_NO_HASBIT, 0),
                        Fld(2, "STRING", "OPTIONAL", UPB_NOT_IN_ONEOF, UPB_NO_HASBIT, 0)>>,
           submsgs |-> <<>>],
    msg |-> Rec(<<>>, <<>>, <<ArrOf(t, 3), Block(116, 0)>>)] : t \in VarintTypes}

\* Family H: a proto2 message of three singular fields with hasbits 0, 3 and
\* 9, every combination of hasbits, all values zero or all non-zero.
HasByte0(h1, h2) == (IF h1 THEN 1 ELSE 0) + (IF h2 THEN 8 ELSE 0)

HasByte1(h3) == IF h3 THEN 2 ELSE 0

Proto2Three(h1, h2, h3, zero) ==
  [m |-> [is_proto2 |-> TRUE,
          fields |-> <<Fld(1, "INT32", "OPTIONAL", UPB_NOT_IN_ONEOF, 0, 0),
                       Fld(2, "STRING", "OPTIONAL", UPB_NOT_IN_ONEOF, 3, 0),
                       Fld(3, "FIXED32", "OPTIONAL", UPB_NOT_IN_ONEOF, 9, 0)>>,
          submsgs |-> <<>>],
   msg |-> Rec(<<HasByte0(h1, h2), HasByte1(h3)>>, <<>>,
               IF zero THEN <<Zero("INT32"), Zero("STRING"), Zero("FIXED32")>>
               ELSE <<NonZero("INT32", 1), NonZero("STRING", 1),
                      NonZero("FIXED32", 1)>>)]

FamilyProto2 ==
  {Proto2Three(h1, h2, h3, zero) :
     h1 \in BOOLEAN, h2 \in BOOLEAN, h3 \in BOOLEAN, zero \in BOOLEAN}

\* Family Z: a proto3 message with a field of every type, all singular and
\* zero, or all repeated and null, or all repeated and empty.
TypeSeq ==
  <<"DOUBLE", "FLOAT", "INT64", "UINT64", "INT32", "FIXED64", "FIXED32", "BOOL",
    "STRING", "GROUP", "MESSAGE", "BYTES", "UINT32", "ENUM", "SFIXED32",
    "SFIXED64", "SINT32", "SINT64">>

AllTypesMessage(label, vals) ==
  [m |-> [is_proto2 |-> FALSE,
          fields |-> [k \in 1..Len(TypeSeq) |->
                        Fld(k, TypeSeq[k], label, UPB_NOT_IN_ONEOF, UPB_NO_HASBIT, 0)],
          submsgs |-> <<MidLayout>>],
   msg |-> Rec(<<>>, <<>>, vals)]

FamilyZero ==
  {AllTypesMessage("OPTIONAL", [k \in 1..Len(TypeSeq) |-> Zero(TypeSeq[k])]),
   AllTypesMessage("REPEATED", [k \in 1..Len(TypeSeq) |-> NullRef]),
   AllTypesMessage("REPEATED", [k \in 1..Len(TypeSeq) |-> Arr(<<>>)])}

\* A null root record.
FamilyNull == {[m |-> MidLayout, msg |-> NullRef]}

Scenarios ==
  FamilySingle \cup FamilyRepeated \cup FamilyMulti \cup FamilyGrowingRun
    \cup FamilyProto2 \cup FamilyZero \cup FamilyNull

\* The allocator's and the build's conduct during one encode call.  No field
\* number of the scenarios reaches 2^28, so upb_put_tag's shift is defined.
Envs ==
  {[budget |-> b, inplace |-> ip, fill |-> f, uninit |-> u, shl |-> "wrap"] :
     b \in 0..MaxGrants, ip \in BOOLEAN, f \in Garbage, u \in UninitSizes}

(***************************************************************************)
(* Specification Spec: one upb_encode call, lines 370-392, the root        *)
(* message's loop (lines 354-364) one iteration per step.                  *)
(*   pc = "start" : upb_encode is about to be called;                      *)
(*   pc = "loop"  : in the root upb_encode_message, i fields are left      *)
(*                  (the loop counter of line 354 is i - 1);               *)
(*   pc = "fail"  : a CHK of the root loop returned false;                 *)
(*   pc = "done"  : upb_encode has returned ret = [buf, size].             *)
(***************************************************************************)
\* The address of the static char of line 386.
StaticCh == 2^8

Init ==
  /\ \E sc \in Scenarios : m = sc.m /\ msg = sc.msg
  /\ env \in Envs
  /\ e = EmptyState
  /\ prev = EmptyState
  /\ op = NoOp
  /\ nops = 0
  /\ i = 0
  /\ pc = "start"
  /\ ret = [buf |-> NULL, size |-> 0]

\* Lines 372-378 and 348-352: set up the state, enter the root message.
Enter ==
  /\ pc = "start"
  /\ e' = EmptyState
  /\ prev' = e
  /\ op' = [NoOp EXCEPT !.name = "enter"]
  /\ IF msg.null
     THEN i' = 0
     ELSE i' = Len(m.fields)
  /\ pc' = "loop"
  /\ UNCHANGED <<env, m, msg, ret, nops>>

\* Lines 354-364: one iteration of the root loop.
FieldStepped(r) ==
  /\ e' = r.e
  /\ prev' = e
  /\ op' = [NoOp EXCEPT !.name = "field", !.n = i, !.ok = r.ok]
  /\ IF r.ok THEN i' = i - 1 /\ pc' = "loop"
             ELSE i' = i /\ pc' = "fail"

FieldStep ==
  /\ pc = "loop"
  /\ i > 0
  /\ FieldStepped(EncodeField(e, msg, m, i, env))
  /\ UNCHANGED <<env, m, msg, ret, nops>>

\* Lines 366-367, then lines 383-391: the root message returns true; the
\* size it stored is overwritten by line 383.
Leave ==
  /\ pc = "loop"
  /\ i = 0
  /\ e' = e
  /\ ret' = [buf  |-> IF e.limit - e.ptr = 0 THEN StaticCh ELSE e.ptr,
             size |-> e.limit - e.ptr]
  /\ prev' = e
  /\ op' = [NoOp EXCEPT !.name = "leave"]
  /\ pc' = "done"
  /\ UNCHANGED <<env, m, msg, i, nops>>

\* Lines 378-381: the root message returned false.
Fail ==
  /\ pc = "fail"
  /\ ret' = [buf |-> NULL, size |-> 0]
  /\ prev' = e
  /\ op' = [NoOp EXCEPT !.name = "fail", !.ok = FALSE]
  /\ pc' = "done"
  /\ UNCHANGED <<e, env, m, msg, i, nops>>

Next == Enter \/ FieldStep \/ Leave \/ Fail

Spec == Init /\ [][Next]_vars

(***************************************************************************)
(* Properties of the buffer (checked under SpecBuf).                       *)
(***************************************************************************)
\* The last operation succeeded and grew the buffer.
Grew == op.ok /\ e.nalloc = prev.nalloc + 1

IsPow2From128(c) == \E k \in 0..20 : c = 128 * 2^k

\* C10: start <= cursor <= end; the capacity is 0 or a power of two >= 128
\* and never decreases; a successful growth yields the smallest power of two
\* >= 128 that is >= requested bytes + used bytes, strictly above the
\* capacity before.
C10_BufferInvariant ==
  /\ e.buf <= e.ptr /\ e.ptr <= e.limit
  /\ Len(e.mem) = Capacity(e)
  /\ Capacity(e) = 0 \/ IsPow2From128(Capacity(e))
  /\ Capacity(e) >= Capacity(prev)
  /\ (e.buf = NULL) <=> (Capacity(e) = 0)
  /\ Capacity(e) # Capacity(prev) => Grew
  /\ Grew =>
       /\ Capacity(e) > Capacity(prev)
       /\ Capacity(e) >= op.req + Used(prev)
       /\ Capacity(e) = 128 \/ Capacity(e) \div 2 < op.req + Used(prev)

\* C10 witness: the buffer has grown twice, the second time past data
\* already written, and holds output.
C10_Witness ==
  /\ Grew /\ e.nalloc = 2
  /\ Capacity(prev) = 128 /\ Capacity(e) = 256
  /\ Used(prev) > 0 /\ Used(e) > Used(prev)

\* Every used byte of s was stored by a put operation (none was only
\* reserved, and so left uninitialized).
AllWritten(s) == Used(s) = Len(s.written)

\* C2: after every operation that grew the buffer, the bytes written before
\* it sit unchanged against the new end (byte end-1-k for every k < used
\* before), and the growth adds nothing to the used bytes: they increase by
\* exactly what the operation itself reserves or writes.
C2_GrowthPreservesBytes ==
  Grew =>
    /\ AllWritten(prev) =>
         \A k \in 0..(Used(prev) - 1) :
           e.mem[Capacity(e) - k] = prev.mem[Capacity(prev) - k]
    /\ op.name \in {"reserve", "bytes", "fixed32", "fixed64"} =>
         Used(e) = Used(prev) + op.req
    /\ op.name \in {"varint", "tag"} =>
         Used(e) = Used(prev) + (Len(e.written) - Len(prev.written))

\* The used-bytes half of C2 alone (it holds of the code).
C2_GrowthKeepsUsed ==
  Grew =>
    /\ op.name \in {"reserve", "bytes", "fixed32", "fixed64"} =>
         Used(e) = Used(prev) + op.req
    /\ op.name \in {"varint", "tag"} =>
         Used(e) = Used(prev) + (Len(e.written) - Len(prev.written))

\* The base-128 digits of n > 0, least significant first, continuation bit
\* set on all but the last.
RECURSIVE Base128(_)
Base128(n) == IF n < 128 THEN <<n>> ELSE <<(n % 128) + 128>> \o Base128(n \div 128)

\* The varint of fieldNumber * 8 + wireType, as an unsigned number.
ExpectedTag(fn, wt) ==
  LET d0 == (fn % 16) * 8 + wt
  IN  IF fn \div 16 = 0 THEN <<d0>> ELSE <<d0 + 128>> \o Base128(fn \div 16)

\* The bytes the last operation added to the output.
Added == SubSeq(Output(e), 1, Used(e) - Used(prev))

\* C6: every tag written is the varint of the unsigned value
\* fieldNumber * 8 + wireType, at most 5 bytes, for field numbers up to
\* 2^29 - 1.
C6_TagIsUnsignedVarint ==
  (op.name = "tag" /\ op.ok) =>
    /\ Added = ExpectedTag(op.n, op.wt)
    /\ Len(Added) <= 5

\* C6 restricted to field numbers below 2^28 (it holds of the code).
C6_TagBelow2p28 ==
  (op.name = "tag" /\ op.ok /\ op.n < 2^28) =>
    /\ Added = ExpectedTag(op.n, op.wt)
    /\ Len(Added) <= 5

(***************************************************************************)
(* Properties of one upb_encode call (checked under Spec).                 *)
(***************************************************************************)
\* upb_encode has returned a buffer.
Succeeded == pc = "done" /\ ret.buf # NULL

\* C1: the length upb_encode_message reports for a non-null record is the
\* number of bytes the call added to the output, buffer growth during the
\* call included; hence every length prefix written for an embedded message
\* equals the size of the body that follows it.
C1_LengthPrefixIsBodySize ==
  \A j \in 1..Len(e.prefixes) :
    ~e.prefixes[j].null => e.prefixes[j].size = e.prefixes[j].wrote

\* C1 restricted to embedded messages encoded without any growth of the
\* buffer (it holds of the code).
C1_ExactWithoutGrowth ==
  \A j \in 1..Len(e.prefixes) :
    (~e.prefixes[j].null /\ ~e.prefixes[j].grew) =>
      e.prefixes[j].size = e.prefixes[j].wrote

\* C4: upb_encode_message of a null record writes no byte and reports length
\* 0; hence a present message field whose sub-record is null gets the
\* length prefix 0.
C4_NullSubmessageLengthZero ==
  \A j \in 1..Len(e.prefixes) :
    e.prefixes[j].null => e.prefixes[j].size = 0 /\ e.prefixes[j].wrote = 0

\* The writes-no-byte half of C4 alone (it holds of the code).
C4_NullWritesNothing ==
  \A j \in 1..Len(e.prefixes) : e.prefixes[j].null => e.prefixes[j].wrote = 0

\* C3: once the allocator has denied a growth, no reserve call and no
\* allocator request follows (so no byte is written), the root loop's step
\* has failed, and upb_encode returns NULL with size 0.
C3_DenialPropagates ==
  e.denied =>
    /\ e.nalloc = env.budget + 1
    /\ e.late = 0
    /\ ~op.ok
    /\ pc \in {"fail", "done"}
    /\ pc = "done" => ret = [buf |-> NULL, size |-> 0]

\* C3 witness: upb_encode has returned NULL after the allocator granted one
\* request and denied the next, which was made two messages deep inside the
\* root's first field: the second field's message wrote its two length
\* prefixes, the first field's message did not reach its inner one.
C3_Witness ==
  /\ pc = "done" /\ e.denied /\ ret.buf = NULL
  /\ e.nalloc = 2 /\ Len(e.written) > 0
  /\ i = 1 /\ Len(m.fields) = 3
  /\ m.fields[1].type = "MESSAGE" /\ m.fields[2].type = "MESSAGE"
  /\ m.fields[3].type \notin MessageTypes
  /\ Len(e.prefixes) = 2

(***************************************************************************)
(* A reader of the wire format, for the claims about the finished buffer.  *)
(***************************************************************************)
\* The varint at b[pos..]: [ok, val, next]; val = -1 past four bytes.
RECURSIVE RdVar(_, _, _, _)
RdVar(b, pos, n, acc) ==
  IF pos > Len(b) \/ n >= 10 THEN [ok |-> FALSE, val |-> -1, next |-> pos]
  ELSE LET acc2 == IF acc < 0 \/ n >= 4 THEN -1 ELSE acc + (b[pos] % 128) * 128^n
       IN  IF b[pos] < 128 THEN [ok |-> TRUE, val |-> acc2, next |-> pos + 1]
           ELSE RdVar(b, pos + 1, n + 1, acc2)

Bad == [ok |-> FALSE, items |-> <<>>, next |-> 0, endtag |-> 0]

Cons(item, rest) == IF rest.ok THEN [rest EXCEPT !.items = <<item>> \o @] ELSE Bad

Item(num, wt, body) == [num |-> num, wt |-> wt, body |-> body]

\* The fields at b[pos..]: [ok, items, next, endtag].  group is 0 at top
\* level, else the number of the open group, which ends at its end tag.
RECURSIVE ParseItems(_, _, _)
ParseItems(b, pos, group) ==
  IF pos > Len(b)
  THEN [ok |-> group = 0, items |-> <<>>, next |-> pos, endtag |-> pos]
  ELSE LET t  == RdVar(b, pos, 0, 0)
           fn == t.val \div 8
           wt == t.val % 8
           l  == RdVar(b, t.next, 0, 0)
           g  == ParseItems(b, t.next, fn)
       IN  IF ~t.ok \/ t.val < 0 \/ fn = 0 THEN Bad
           ELSE CASE wt = 0 ->
                       IF ~l.ok THEN Bad
                       ELSE Cons(Item(fn, wt, SubSeq(b, t.next, l.next - 1)),
                                 ParseItems(b, l.next, group))
                  [] wt = 1 ->
                       IF t.next + 7 > Len(b) THEN Bad
                       ELSE Cons(Item(fn, wt, SubSeq(b, t.next, t.next + 7)),
                                 ParseItems(b, t.next + 8, group))
                  [] wt = 5 ->
                       IF t.next + 3 > Len(b) THEN Bad
                       ELSE Cons(Item(fn, wt, SubSeq(b, t.next, t.next + 3)),
                                 ParseItems(b, t.next + 4, group))
                  [] wt = 2 ->
                       IF ~l.ok \/ l.val < 0 \/ l.next + l.val - 1 > Len(b) THEN Bad
                       ELSE Cons(Item(fn, wt, SubSeq(b, l.next, l.next + l.val - 1)),
                                 ParseItems(b, l.next + l.val, group))
                  [] wt = 3 ->
                       IF ~g.ok THEN Bad
                       ELSE Cons(Item(fn, wt, SubSeq(b, t.next, g.endtag - 1)),
                                 ParseItems(b, g.next, group))
                  [] wt = 4 ->
                       IF group = fn
                       THEN [ok |-> TRUE, items |-> <<>>, next |-> t.next, endtag |-> pos]
                       ELSE Bad
                  [] OTHER -> Bad

BodiesOf(items, num) ==
  LET sel == SelectSeq(items, LAMBDA it : it.num = num)
  IN  [j \in 1..Len(sel) |-> sel[j].body]

IndexOf(num) == CHOOSE k \in 1..Len(m.fields) : m.fields[k].number = num

\* No field of the root message is a group or an embedded message.
NoEmbedded == \A k \in 1..Len(m.fields) : m.fields[k].type \notin MessageTypes

\* The field order and element order of the finished buffer.
InDeclarationOrder(p) ==
  /\ p.ok
  /\ \A a \in 1..Len(p.items) :
       \E k \in 1..Len(m.fields) : m.fields[k].number = p.items[a].num
  /\ \A a \in 1..Len(p.items) : \A c \in a..Len(p.items) :
       IndexOf(p.items[a].num) <= IndexOf(p.items[c].num)
  /\ \A k \in 1..Len(m.fields) :
       (/\ m.fields[k].label = "REPEATED"
        /\ m.fields[k].type \in StringTypes
        /\ ~msg.val[k].null) =>
         BodiesOf(p.items, m.fields[k].number) = msg.val[k].elems

\* C5: read front to back, the tags of the finished buffer are in
\* declaration order, and the elements of a repeated field are in array
\* order (stated of messages without embedded messages, whose length
\* prefixes are C1's subject).
C5_TagsInDeclarationOrder ==
  (Succeeded /\ ~msg.null /\ NoEmbedded) =>
    InDeclarationOrder(ParseItems(Output(e), 1, 0))

\* C5 restricted to calls in which the buffer grew at most once (it holds
\* of the code).
C5_SingleAllocation ==
  (Succeeded /\ ~msg.null /\ NoEmbedded /\ e.nalloc <= 1) =>
    InDeclarationOrder(ParseItems(Output(e), 1, 0))

\* The varint of one element of a packed run, for small elements and for
\* the elements of all ones: the zigzag image for the sint types (-1 maps
\* to 1), the raw unsigned value for the others.
ExpectedElem(t, x) ==
  IF x[2] = 0 /\ x[3] = 0 /\ x[1] < 2^20
  THEN Base128((IF t \in {"SINT32", "SINT64"} THEN 2 ELSE 1) * x[1])
  ELSE IF t \in {"SINT32", "SINT64"} THEN <<1>>
  ELSE IF x = U64(B28 - 1, 15, 0) THEN <<255, 255, 255, 255, 15>>
  ELSE IF x = U64(B28 - 1, B28 - 1, 255) THEN Fill(9, 255) \o <<1>>
  ELSE <<>>

RECURSIVE ExpectedRun(_, _, _)
ExpectedRun(t, elems, k) ==
  IF k > Len(elems) THEN <<>>
  ELSE ExpectedElem(t, elems[k]) \o ExpectedRun(t, elems, k + 1)

PackedRuns(p) ==
  /\ p.ok
  /\ \A k \in 1..Len(m.fields) :
       (/\ m.fields[k].label = "REPEATED"
        /\ m.fields[k].type \in VarintTypes
        /\ ~msg.val[k].null
        /\ Len(msg.val[k].elems) > 0) =>
         LET run == SelectSeq(p.items, LAMBDA it : it.num = m.fields[k].number)
         IN  /\ Len(run) = 1
             /\ run[1].wt = UPB_WIRE_TYPE_DELIMITED
             /\ run[1].body = ExpectedRun(m.fields[k].type, msg.val[k].elems, 1)

\* A repeated field of a varint type with at least one element.
HasPackedRun ==
  \E k \in 1..Len(m.fields) :
    /\ m.fields[k].label = "REPEATED"
    /\ m.fields[k].type \in VarintTypes
    /\ ~msg.val[k].null
    /\ Len(msg.val[k].elems) > 0

\* C7: a non-empty repeated field of a varint type is one tag of wire type
\* 2, a length equal to the sum of the elements' varint widths, and the
\* elements' varints in array order, also when the buffer grows while the
\* run is written.
C7_PackedRun ==
  (Succeeded /\ ~msg.null /\ NoEmbedded /\ HasPackedRun) =>
    PackedRuns(ParseItems(Output(e), 1, 0))

\* C7 restricted to calls in which the buffer grew at most once (it holds
\* of the code).
C7_SingleAllocation ==
  (Succeeded /\ ~msg.null /\ NoEmbedded /\ HasPackedRun /\ e.nalloc <= 1) =>
    PackedRuns(ParseItems(Output(e), 1, 0))

\* The hasbit of field f, read from the record's hasbit bytes.
HasBit(f) == (msg.hasbits[(f.hasbit \div 8) + 1] \div 2^(f.hasbit % 8)) % 2 = 1

WireTypeOf(t) ==
  CASE t \in {"DOUBLE", "FIXED64", "SFIXED64"} -> 1
    [] t \in {"FLOAT", "FIXED32", "SFIXED32"} -> 5
    [] t \in {"STRING", "BYTES", "MESSAGE"} -> 2
    [] t = "GROUP" -> 3
    [] OTHER -> 0

\* The encoding of the zero value of a type other than group and message.
ZeroBytes(t) ==
  CASE t \in {"DOUBLE", "FIXED64", "SFIXED64"} -> Fill(8, 0)
    [] t \in {"FLOAT", "FIXED32", "SFIXED32"} -> Fill(4, 0)
    [] OTHER -> <<0>>

IsZeroValue(t, v) ==
  CASE t \in StringTypes -> v = <<>>
    [] t \in MessageTypes -> v.null
    [] OTHER -> v = <<0, 0, 0>>

\* The bytes the last step stored, by the history.
Stored == SubSeq(e.written, 1, Len(e.written) - Len(prev.written))

\* The last step was the root loop's iteration for a singular proto2 field
\* outside any oneof.
Proto2Step ==
  /\ op.name = "field" /\ op.ok
  /\ m.is_proto2
  /\ m.fields[op.n].label # "REPEATED"
  /\ m.fields[op.n].oneof_index = UPB_NOT_IN_ONEOF

EmittedWithTag(f, v) ==
  LET tag == ExpectedTag(f.number, WireTypeOf(f.type))
  IN  /\ Len(Stored) > Len(tag)
      /\ SubSeq(Stored, 1, Len(tag)) = tag
      /\ Used(e) = Used(prev) + Len(Stored)
      /\ (e.nalloc = prev.nalloc \/ Used(prev) = 0) => Added = Stored
      /\ (IsZeroValue(f.type, v) /\ f.type \notin MessageTypes) =>
           Stored = tag \o ZeroBytes(f.type)

\* C8: in a proto2 message a singular field outside any oneof is emitted
\* exactly when its hasbit is set: with the hasbit set it is written under
\* its tag whatever its value, the zero value included; with the hasbit
\* clear the step changes nothing, whatever the storage holds.
C8_Proto2HasbitDecides ==
  Proto2Step =>
    IF HasBit(m.fields[op.n])
    THEN EmittedWithTag(m.fields[op.n], msg.val[op.n])
    ELSE e = prev

\* C8 witness: a proto2 field whose hasbit is set and whose value is zero
\* has been emitted, after a field whose hasbit is clear was passed over.
C8_Witness ==
  /\ Proto2Step
  /\ Len(m.fields) = 3 /\ op.n = 2
  /\ HasBit(m.fields[2]) /\ ~HasBit(m.fields[3])
  /\ IsZeroValue(m.fields[2].type, msg.val[2])
  /\ Stored = <<18, 0>>

\* The record of C9: proto3, no field in a oneof, singular fields zero,
\* repeated fields null or empty.
AllZeroProto3 ==
  /\ ~m.is_proto2
  /\ ~msg.null
  /\ \A k \in 1..Len(m.fields) :
       /\ m.fields[k].oneof_index = UPB_NOT_IN_ONEOF
       /\ IF m.fields[k].label = "REPEATED"
          THEN msg.val[k].null \/ msg.val[k].elems = <<>>
          ELSE IsZeroValue(m.fields[k].type, msg.val[k])

\* C9: for such a record upb_encode reports length 0, makes no allocator
\* request, and returns the address of the static char, which is not NULL.
C9_AllZeroProto3 ==
  (pc = "done" /\ AllZeroProto3) =>
    /\ ret.size = 0
    /\ ret.buf = StaticCh
    /\ ret.buf # NULL
    /\ e.nalloc = 0
    /\ e.written = <<>>

\* C9 witness: upb_encode has returned for a record with a singular zero
\* field of every type, under an allocator that grants nothing.
C9_Witness ==
  /\ pc = "done" /\ AllZeroProto3
  /\ Len(m.fields) = Len(TypeSeq) /\ m.fields[1].label = "OPTIONAL"
  /\ env.budget = 0
  /\ ret.size = 0 /\ ret.buf # NULL

====
